---- MODULE Spec2Model ----
(***************************************************************************)
(* Model of mopidy_raspberry_gpio/frontend.py: RaspberryGPIOFrontend.      *)
(* The polling thread (_poll_loop), the lifecycle (on_start / on_stop),    *)
(* the dispatcher (dispatch_input) and the handle_* handlers, together     *)
(* with the environment they run against: the hardware lines and the       *)
(* playback-control surface.  RotEncoder (rotencoder.py) is not part of    *)
(* the sources at hand; it is modelled from sections 3 and 4.2 of the      *)
(* specification.  Spec starts from a constructed frontend, BuildSpec from *)
(* the configuration before __init__, HandlerSpec runs one dispatch.       *)
(***************************************************************************)
EXTENDS Integers, Sequences, FiniteSets, TLC

(***************************************************************************)
(* Bounds of the model.                                                    *)
(***************************************************************************)
\* longest debounce duration of a configured button, in clock ticks
MaxBounce == 2
\* largest step option a configuration gives (and -MaxStep the smallest)
MaxStep == 6
\* number of tracks a playlist or the tracklist may hold
MaxTracks == 2

(***************************************************************************)
(* Program constants.                                                      *)
(***************************************************************************)
\* int(config.get("step", 5))
DefaultStep == 5
\* min(volume + step, 100)
VolumeCap == 100
\* max(volume - step, 0)
VolumeFloor == 0

HIGH == 1
LOW == 0
Levels == {LOW, HIGH}

(***************************************************************************)
(* Configuration: self.config["raspberry-gpio"], the "bcm<N>" keys in      *)
(* declaration order.  A settings value has the fields active, bouncetime, *)
(* event and options; options is a mapping whose keys may be absent.       *)
(***************************************************************************)
Pins == 1 .. 3

\* a mapping with the given keys (a Python dict)
Dict(keys, vals) == [k \in keys |-> vals[k]]

NoOptions == Dict({}, [x \in {} |-> 0])

Settings(active, bouncetime, event, options) ==
    [active |-> active, bouncetime |-> bouncetime, event |-> event,
     options |-> options]

\* the options of the two lines of the rotary group "enc"; they differ, so
\* that the line an event is dispatched for is visible in its options
OptionsA == Dict({"rotenc_id", "step"}, [rotenc_id |-> "enc", step |-> 50])
OptionsB == Dict({"rotenc_id"}, [rotenc_id |-> "enc"])

\* the lines of one configuration: line 1 is a plain button, lines 2 and 3
\* form one rotary encoder whose two events are given
RotaryPair(button, active, bouncetime, eventA, eventB) ==
    [p \in Pins |->
        CASE p = 1 -> button
          [] p = 2 -> Settings(active, bouncetime, eventA, OptionsA)
          [] p = 3 -> Settings(active, bouncetime, eventB, OptionsB)]

Lines(button, eventA, eventB) ==
    RotaryPair(button, "active_low", 1, eventA, eventB)

\* the configurations explored: the button in both polarities, with a long
\* and a short debounce time; the encoder stepping through the tracks, and
\* with an event name no handler exists for; the lines of the encoder in
\* both polarities, with a short and a long debounce time
Configs ==
    { Lines(Settings("active_low", MaxBounce, "play_stop", NoOptions),
            "next", "prev"),
      RotaryPair(Settings("active_high", 1, "play_pause", NoOptions),
                 "active_high", MaxBounce, "next", "bogus") }

VARIABLES
    self_config,    \* self.config: line -> settings, as configured
    pin_settings,   \* self.pin_settings: line -> settings
    rot_encoders,   \* self.rot_encoders: rotenc_id -> RotEncoder
    last_states,    \* self.last_states: line -> last level read
    stop_polling,   \* self._stop_polling (threading.Event)
    hw,             \* the level of every hardware line (environment)
    released,       \* number of GPIO.cleanup() calls made
    core,           \* the playback-control surface (environment)
    main,           \* position of the owning actor: on_start / on_stop
    pc,             \* position of the polling thread in _poll_loop
    idx,            \* index of the line the current pass is at
    state,          \* local 'state' of _poll_loop, held across the sleep
    window,         \* ticks left of the debounce sleep in progress
    step,           \* what the last step of the polling thread did
    glitched,       \* the last change an encoder sampled was a double-bit one
    phase,          \* line -> where a button is in its press (history)
    joined          \* how the join of on_stop returned (history)

vars == <<self_config, pin_settings, rot_encoders, last_states, stop_polling,
          hw, released, core, main, pc, idx, state, window, step, glitched,
          phase, joined>>

(***************************************************************************)
(* The playback-control surface.  Calls made through the actor proxy       *)
(* return futures: a call followed by .get() (get_state, get_volume,       *)
(* lookup) delivers its result or its exception to the polling thread and  *)
(* may block it; the other calls (play, pause, stop, next, previous,       *)
(* set_volume, clear, add) are issued and their futures dropped, so one    *)
(* that fails has no effect and is not seen by the caller.                 *)
(***************************************************************************)
Tracks == {"t1", "t2"}
TrackLists == UNION {[1 .. n -> Tracks] : n \in 0 .. MaxTracks}

\* core.playlists.lookup(uri): the playlist's tracks, or None
Library == [uri \in {"pl:a", "pl:b"} |->
              IF uri = "pl:a" THEN <<"t1", "t2">> ELSE <<"t2">>]
None == "None"
lookup(uri) == IF uri \in DOMAIN Library THEN uri ELSE None

\* what the environment does to the calls of one handler run: the outcome
\* of its .get() read (a result, an exception, an AttributeError, or no
\* answer yet: the caller is blocked in .get()), and which of its writes
\* (0: none) fails
ExtOutcomes ==
    {[rd |-> r, wfail |-> w] : r \in {"ok", "block"}, w \in 0 .. 3}
        \cup {[rd |-> r, wfail |-> 0] : r \in {"raise", "attribute_error"}}

\* a call as far as it gets without an answer to its .get(), and the
\* answers a .get() may return with
CallOutcomes == {e \in ExtOutcomes : e.rd = "block"}
ReturnOutcomes == {e \in ExtOutcomes : e.rd # "block"}

Call(op, arg) == [op |-> op, arg |-> arg]

\* the effect of one write that succeeds
Effect(c, w) ==
    CASE w.op = "play" -> [c EXCEPT !.playback = "playing"]
      [] w.op = "pause" -> [c EXCEPT !.playback = "paused"]
      [] w.op = "stop" -> [c EXCEPT !.playback = "stopped"]
      [] w.op = "set_volume" -> [c EXCEPT !.volume = w.arg]
      [] w.op = "clear" -> [c EXCEPT !.tracklist = <<>>]
      [] w.op = "add" -> [c EXCEPT !.tracklist = @ \o Library[w.uri]]
      [] OTHER -> c

RECURSIVE ApplyWrites(_, _, _, _)
ApplyWrites(c, ws, i, wfail) ==
    IF i > Len(ws) THEN c
    ELSE ApplyWrites(IF i = wfail THEN c ELSE Effect(c, ws[i]), ws, i + 1, wfail)

Outcome(c, calls, result) == [core |-> c, calls |-> calls, result |-> result]

\* a handler that reads once (with .get()) and then issues ws
ReadThenWrite(c, rd, ws, ext) ==
    IF ext.rd = "raise" THEN Outcome(c, <<rd>>, "raised")
    ELSE IF ext.rd = "attribute_error"
         THEN Outcome(c, <<rd>>, "attribute_error")
    ELSE IF ext.rd = "block" THEN Outcome(c, <<rd>>, "blocked")
    ELSE Outcome(ApplyWrites(c, ws, 1, ext.wfail), <<rd>> \o ws, "ok")

handle_play_pause(config, c, ext) ==
    ReadThenWrite(c, Call("get_state", 0),
        IF c.playback = "playing" THEN <<Call("pause", 0)>>
        ELSE <<Call("play", 0)>>, ext)

handle_play_stop(config, c, ext) ==
    ReadThenWrite(c, Call("get_state", 0),
        IF c.playback = "playing" THEN <<Call("stop", 0)>>
        ELSE <<Call("play", 0)>>, ext)

handle_next(config, c, ext) ==
    Outcome(ApplyWrites(c, <<Call("next", 0)>>, 1, ext.wfail),
            <<Call("next", 0)>>, "ok")

handle_prev(config, c, ext) ==
    Outcome(ApplyWrites(c, <<Call("previous", 0)>>, 1, ext.wfail),
            <<Call("previous", 0)>>, "ok")

\* int(config.get("step", 5))
StepOf(config) ==
    IF "step" \in DOMAIN config THEN config["step"] ELSE DefaultStep

Min(a, b) == IF a < b THEN a ELSE b
Max(a, b) == IF a > b THEN a ELSE b

VolumeUp(volume, stp) == Min(volume + stp, VolumeCap)

VolumeDown(volume, stp) == Max(volume - stp, VolumeFloor)

handle_volume_up(config, c, ext) ==
    ReadThenWrite(c, Call("get_volume", 0),
        <<Call("set_volume", VolumeUp(c.volume, StepOf(config)))>>, ext)

handle_volume_down(config, c, ext) ==
    ReadThenWrite(c, Call("get_volume", 0),
        <<Call("set_volume", VolumeDown(c.volume, StepOf(config)))>>, ext)

\* config.get("uri")
UriOf(config) == IF "uri" \in DOMAIN config THEN config["uri"] ELSE None

\* handle_playlist with the bug of appending to the tracklist: no clear()
handle_playlist_append(config, c, ext) ==
    LET rd == Call("lookup", 0)
        playlist == lookup(UriOf(config))
    IN  IF ext.rd = "raise" THEN Outcome(c, <<rd>>, "raised")
        ELSE IF ext.rd = "attribute_error"
             THEN Outcome(c, <<rd>>, "attribute_error")
        ELSE IF ext.rd = "block" THEN Outcome(c, <<rd>>, "blocked")
        ELSE IF playlist = None THEN Outcome(c, <<rd>>, "attribute_error")
        ELSE LET ws == <<[op |-> "add", arg |-> Len(Library[playlist]),
                          uri |-> playlist],
                         Call("play", 0)>>
             IN  Outcome(ApplyWrites(c, ws, 1, ext.wfail), <<rd>> \o ws, "ok")

\* lookup(...).get(), clear(), then playlist.tracks, which is an
\* AttributeError when the lookup gave None, then add(...) and play()
handle_playlist(config, c, ext) ==
    LET rd == Call("lookup", 0)
        playlist == lookup(UriOf(config))
        clear == Call("clear", 0)
    IN  IF ext.rd = "raise" THEN Outcome(c, <<rd>>, "raised")
        ELSE IF ext.rd = "attribute_error"
             THEN Outcome(c, <<rd>>, "attribute_error")
        ELSE IF ext.rd = "block" THEN Outcome(c, <<rd>>, "blocked")
        ELSE IF playlist = None
             THEN Outcome(ApplyWrites(c, <<clear>>, 1, ext.wfail),
                          <<rd, clear>>, "attribute_error")
        ELSE LET ws == <<clear,
                         [op |-> "add", arg |-> Len(Library[playlist]),
                          uri |-> playlist],
                         Call("play", 0)>>
             IN  Outcome(ApplyWrites(c, ws, 1, ext.wfail), <<rd>> \o ws, "ok")

\* the handle_<event> methods of the class
Handlers == {"play_pause", "play_stop", "next", "prev", "volume_up",
             "volume_down", "playlist"}

Handle(event, config, c, ext) ==
    CASE event = "play_pause" -> handle_play_pause(config, c, ext)
      [] event = "play_stop" -> handle_play_stop(config, c, ext)
      [] event = "next" -> handle_next(config, c, ext)
      [] event = "prev" -> handle_prev(config, c, ext)
      [] event = "volume_up" -> handle_volume_up(config, c, ext)
      [] event = "volume_down" -> handle_volume_down(config, c, ext)
      [] event = "playlist" -> handle_playlist(config, c, ext)

\* getattr(self, "handle_" + event)(options); an AttributeError, of the lookup
\* or from inside the handler, becomes the RuntimeError "Could not find
\* input handler"
AsRuntimeError(r) ==
    IF r.result = "attribute_error" THEN [r EXCEPT !.result = "missing"] ELSE r

dispatch_input(event, options, c, ext) ==
    IF event \notin Handlers THEN Outcome(c, <<>>, "missing")
    ELSE AsRuntimeError(Handle(event, options, c, ext))

(***************************************************************************)
(* RotEncoder (rotencoder.py), from section 4.2 of the specification: a    *)
(* group of two lines, the first bound in role A and the second in role B, *)
(* and a 2-bit state (levelA, levelB).  A query reads both lines, compares *)
(* the new state with the previous one on the Gray cycle                   *)
(* 00 -> 01 -> 11 -> 10 -> 00 (clockwise) and keeps the new state.         *)
(***************************************************************************)
RotEncoder(rot_id) == [id |-> rot_id, pins |-> <<>>, events |-> <<>>, state |-> 0]

add_pin(encoder, pin, event) ==
    [encoder EXCEPT !.pins = Append(@, pin), !.events = Append(@, event)]

\* (levelA, levelB) as a 2-bit value
get_state(encoder, levels) ==
    2 * levels[encoder.pins[1]] + levels[encoder.pins[2]]

\* the state that follows s clockwise: 00 -> 01 -> 11 -> 10 -> 00
Clockwise(s) == CASE s = 0 -> 1 [] s = 1 -> 3 [] s = 3 -> 2 [] s = 2 -> 0

\* "cw", "ccw", or None for no change and for a double-bit change
Direction(from, to) ==
    IF to = Clockwise(from) THEN "cw"
    ELSE IF from = Clockwise(to) THEN "ccw"
    ELSE None

\* a query: the event decoded (None: neutral) and the encoder afterwards.
\* A clockwise step gives the event of the line in role A, a
\* counter-clockwise step that of the line in role B.
get_event(encoder, levels) ==
    IF Len(encoder.pins) < 2 THEN [event |-> None, encoder |-> encoder]
    ELSE LET new == get_state(encoder, levels)
             d == Direction(encoder.state, new)
         IN  [event |-> CASE d = "cw" -> encoder.events[1]
                          [] d = "ccw" -> encoder.events[2]
                          [] OTHER -> None,
              encoder |-> [encoder EXCEPT !.state = new]]

(***************************************************************************)
(* __init__: the "Setup pins" loop over the configuration.                 *)
(***************************************************************************)
IsRotary(settings) == "rotenc_id" \in DOMAIN settings.options

RECURSIVE SetupEncoders(_, _, _)
SetupEncoders(cfg, p, encoders) ==
    IF p \notin DOMAIN cfg THEN encoders
    ELSE IF ~IsRotary(cfg[p]) THEN SetupEncoders(cfg, p + 1, encoders)
    ELSE LET rotenc_id == cfg[p].options["rotenc_id"]
             encoder == IF rotenc_id \in DOMAIN encoders
                        THEN encoders[rotenc_id]
                        ELSE RotEncoder(rotenc_id)
             bound == add_pin(encoder, p, cfg[p].event)
         IN  SetupEncoders(cfg, p + 1,
                 [i \in DOMAIN encoders \cup {rotenc_id} |->
                     IF i = rotenc_id THEN bound ELSE encoders[i]])

\* the encoders once every line is bound, their state the levels of their
\* two lines
InitEncoders(cfg, levels) ==
    LET encoders == SetupEncoders(cfg, 1, [i \in {} |-> 0])
    IN  [i \in DOMAIN encoders |->
            IF Len(encoders[i].pins) = 2
            THEN [encoders[i] EXCEPT !.state = get_state(encoders[i], levels)]
            ELSE encoders[i]]

\* whether a level is the active one of a line: active_low unless the
\* polarity is "active_high"
IsActive(settings, level) ==
    level = IF settings.active # "active_high" THEN LOW ELSE HIGH

\* where a button is in its press: "held" (active when read at construction
\* and not sampled inactive since), "released" (last seen inactive, nothing
\* dispatched since) or "fired" (an event dispatched, not sampled inactive
\* since)
InitialPhase(settings, level) ==
    IF IsRotary(settings) THEN "rotary"
    ELSE IF IsActive(settings, level) THEN "held"
    ELSE "released"

PhaseAfter(settings, ph, st, dispatched) ==
    IF IsRotary(settings) THEN ph
    ELSE IF dispatched # <<>> THEN "fired"
    ELSE IF ~IsActive(settings, st) THEN "released"
    ELSE ph

InitCore ==
    [playback : {"stopped"}, volume : {50}, tracklist : {<<>>}]

NoStep ==
    [kind |-> "none", pin |-> 0, last |-> 0, state |-> 0, queried |-> FALSE,
     from |-> 0, to |-> 0, resumed |-> FALSE, dispatched |-> <<>>, calls |-> <<>>,
     result |-> "none", sleep |-> 0, failed |-> 0, phase |-> "none",
     late |-> FALSE]

\* Init with the bug of taking every line to be at its inactive level
\* instead of reading it
InitAssumedIdle ==
    /\ self_config \in Configs
    /\ pin_settings = self_config
    /\ hw \in [Pins -> Levels]
    /\ last_states = [p \in Pins |->
                         IF self_config[p].active # "active_high"
                         THEN HIGH ELSE LOW]
    /\ rot_encoders = InitEncoders(self_config, hw)
    /\ stop_polling = FALSE
    /\ released = 0
    /\ core \in InitCore
    /\ main = "constructed"
    /\ pc = "idle"
    /\ idx = 1
    /\ state = 0
    /\ window = 0
    /\ step = NoStep
    /\ glitched = FALSE
    /\ phase = [p \in Pins |-> InitialPhase(self_config[p], hw[p])]
    /\ joined = "no"

Init ==
    /\ self_config \in Configs
    /\ pin_settings = self_config
    /\ hw \in [Pins -> Levels]
    /\ last_states = hw
    /\ rot_encoders = InitEncoders(self_config, hw)
    /\ stop_polling = FALSE
    /\ released = 0
    /\ core \in InitCore
    /\ main = "constructed"
    /\ pc = "idle"
    /\ idx = 1
    /\ state = 0
    /\ window = 0
    /\ step = NoStep
    /\ glitched = FALSE
    /\ phase = [p \in Pins |-> InitialPhase(self_config[p], hw[p])]
    /\ joined = "no"

(***************************************************************************)
(* _poll_loop: what one iteration of the for loop does with one line.      *)
(***************************************************************************)
\* a Python truth test of an event name
Truthy(event) == event # None /\ event # ""

Dispatched(event, options) == [event |-> event, options |-> options]

\* the calls that deliver a result with .get()
Reads == {"get_state", "get_volume", "lookup"}

\* which of the writes among calls the environment made fail (0: none)
WriteFailed(calls, ext) ==
    LET writes == {i \in DOMAIN calls : calls[i].op \notin Reads}
    IN  IF ext.wfail \in 1 .. Cardinality(writes) THEN ext.wfail ELSE 0

AfterDispatch(event, options, encoders, r, ext) ==
    [encoders |-> encoders, core |-> r.core,
     dispatched |-> <<Dispatched(event, options)>>,
     calls |-> r.calls, result |-> r.result,
     failed |-> WriteFailed(r.calls, ext)]

\* self.dispatch_input(event, options), and what it leaves behind
Dispatch(event, options, encoders, c, ext) ==
    AfterDispatch(event, options, encoders,
                  dispatch_input(event, options, c, ext), ext)

NoDispatch(encoders, c) ==
    [encoders |-> encoders, core |-> c, dispatched |-> <<>>, calls |-> <<>>,
     result |-> "none", failed |-> 0]

\* the encoder a line is bound to, or None
find_pin_rotenc(pin, encoders) ==
    LET hit == {i \in DOMAIN encoders :
                   \E k \in DOMAIN encoders[i].pins : encoders[i].pins[k] = pin}
    IN  IF hit = {} THEN None ELSE CHOOSE i \in hit : TRUE

gpio_event(pin, settings, encoders, levels, c, ext) ==
    LET rot == find_pin_rotenc(pin, encoders)
        q == IF rot # None THEN get_event(encoders[rot], levels)
             ELSE [event |-> settings.event]
        encs == IF rot # None THEN [encoders EXCEPT ![rot] = q.encoder]
                ELSE encoders
    IN  IF Truthy(q.event) THEN Dispatch(q.event, settings.options, encs, c, ext)
        ELSE NoDispatch(encs, c)

\* RotaryLine with the bug of dispatching the event configured for the line
\* instead of the one the encoder decoded
RotaryLineOwnEvent(pin, settings, last, st, encoders, levels, c, ext) ==
    IF st # last
    THEN LET id == settings.options["rotenc_id"]
             q == get_event(encoders[id], levels)
             encs == [encoders EXCEPT ![id] = q.encoder]
         IN  IF Truthy(q.event)
             THEN Dispatch(settings.event, settings.options, encs, c, ext)
             ELSE NoDispatch(encs, c)
    ELSE NoDispatch(encoders, c)

\* RotaryLine with the bug of falling back to the event configured for the
\* line when the encoder decodes nothing
RotaryLineFallback(pin, settings, last, st, encoders, levels, c, ext) ==
    IF st # last
    THEN LET id == settings.options["rotenc_id"]
             q == get_event(encoders[id], levels)
             encs == [encoders EXCEPT ![id] = q.encoder]
             event == IF Truthy(q.event) THEN q.event ELSE settings.event
         IN  Dispatch(event, settings.options, encs, c, ext)
    ELSE NoDispatch(encoders, c)

\* RotaryLine with the bug of dispatching with the options of the line the
\* decoded event is configured on
RotaryLineEventOptions(pin, settings, last, st, encoders, levels, c, ext) ==
    IF st # last
    THEN LET id == settings.options["rotenc_id"]
             q == get_event(encoders[id], levels)
             encs == [encoders EXCEPT ![id] = q.encoder]
             owner == IF q.event = encoders[id].events[1]
                      THEN encoders[id].pins[1]
                      ELSE encoders[id].pins[2]
         IN  IF Truthy(q.event)
             THEN Dispatch(q.event, pin_settings[owner].options, encs, c, ext)
             ELSE NoDispatch(encs, c)
    ELSE NoDispatch(encoders, c)

\* the rotary branch: a changed level queries the encoder of the line
RotaryLine(pin, settings, last, st, encoders, levels, c, ext) ==
    IF st # last
    THEN LET id == settings.options["rotenc_id"]
             q == get_event(encoders[id], levels)
             encs == [encoders EXCEPT ![id] = q.encoder]
         IN  IF Truthy(q.event)
             THEN Dispatch(q.event, settings.options, encs, c, ext)
             ELSE NoDispatch(encs, c)
    ELSE NoDispatch(encoders, c)

\* ActivatingEdge with the bug of taking every change of level for a press
ActivatingEdgeAnyChange(settings, last, st) == last # st

\* the edge test of the button branch
ActivatingEdge(settings, last, st) ==
    LET active_low == settings.active # "active_high"
    IN  \/ active_low /\ last = HIGH /\ st = LOW
        \/ ~active_low /\ last = LOW /\ st = HIGH

ButtonLine(pin, settings, last, st, encoders, levels, c, ext) ==
    IF ActivatingEdge(settings, last, st)
    THEN gpio_event(pin, settings, encoders, levels, c, ext)
    ELSE NoDispatch(encoders, c)

\* whether an exception leaves the handler (and so _poll_loop)
Raises(result) == result \in {"raised", "missing"}

\* time.sleep(settings.bouncetime / 1000.0), reached when gpio_event returns
DebounceSleep(settings, last, st, result) ==
    IF ActivatingEdge(settings, last, st) /\ result \in {"ok", "none"}
    THEN settings.bouncetime
    ELSE 0

\* what one line of a pass did, r being the outcome of its branch
LineStep(pin, st, r) ==
    LET settings == pin_settings[pin]
        last == last_states[pin]
        rotary == IsRotary(settings)
        id == IF rotary THEN settings.options["rotenc_id"] ELSE None
    IN  [kind |-> IF rotary THEN "rotary" ELSE "button",
         pin |-> pin, last |-> last, state |-> st,
         queried |-> rotary /\ st # last,
         from |-> IF rotary THEN rot_encoders[id].state ELSE 0,
         to |-> IF rotary THEN r.encoders[id].state ELSE 0,
         resumed |-> rotary /\ st # last /\ glitched,
         dispatched |-> r.dispatched, calls |-> r.calls,
         result |-> r.result,
         sleep |-> IF rotary THEN 0
                   ELSE DebounceSleep(settings, last, st, r.result),
         failed |-> r.failed,
         phase |-> phase[pin],
         late |-> released > 0]

LineResult(pin, st, r) ==
    [encoders |-> r.encoders, core |-> r.core, step |-> LineStep(pin, st, r)]

\* poll_line with the bug of sending the lines of an encoder through the
\* edge test of the buttons
poll_line_buttons(pin, st, ext) ==
    LineResult(pin, st,
        ButtonLine(pin, pin_settings[pin], last_states[pin], st,
                   rot_encoders, hw, core, ext))

\* one line of a pass: state = GPIO.input(pin) gave st
poll_line(pin, st, ext) ==
    LineResult(pin, st,
        IF IsRotary(pin_settings[pin])
        THEN RotaryLine(pin, pin_settings[pin], last_states[pin], st,
                        rot_encoders, hw, core, ext)
        ELSE ButtonLine(pin, pin_settings[pin], last_states[pin], st,
                        rot_encoders, hw, core, ext))

\* AfterLine with the bug of not sleeping after a press
AfterLineNoSleep(s) ==
    IF Raises(s.result) THEN "crashed"
    ELSE IF s.result = "blocked" THEN "blocked"
    ELSE "advance"

\* where the thread is after a line: dead, waiting in a .get(), asleep for
\* the debounce time, or on to the next line
AfterLine(s) ==
    IF Raises(s.result) THEN "crashed"
    ELSE IF s.result = "blocked" THEN "blocked"
    ELSE IF s.sleep > 0 THEN "stall"
    ELSE "advance"

NumPins == Cardinality(DOMAIN pin_settings)

\* on to the next line; after the last one, time.sleep(0.0005) and back to
\* the test of the while loop
Advance ==
    /\ pc' = IF idx = NumPins THEN "check" ELSE "pin"
    /\ idx' = IF idx = NumPins THEN 1 ELSE idx + 1

\* GPIO.input(pin) raises: nothing catches it, the thread ends
ReadFails ==
    /\ pc = "pin"
    /\ pc' = "crashed"
    /\ step' = [NoStep EXCEPT !.kind = "readfail", !.pin = idx,
                              !.last = last_states[idx],
                              !.late = released > 0]
    /\ UNCHANGED <<pin_settings, rot_encoders, last_states, stop_polling, hw,
                   released, core, main, idx, state, window, glitched,
                   self_config, phase, joined>>

\* the assignments of one line, a saying where the thread goes next
Commit(r, a) ==
    /\ step' = r.step
    /\ rot_encoders' = r.encoders
    /\ core' = r.core
    /\ window' = r.step.sleep
    /\ glitched' = IF r.step.from # r.step.to
                    THEN Direction(r.step.from, r.step.to) = None
                    ELSE glitched
    /\ phase' = [phase EXCEPT ![idx] = PhaseAfter(pin_settings[idx], @,
                                                  r.step.state, r.step.dispatched)]
    /\ IF a = "advance"
       THEN /\ last_states' = [last_states EXCEPT ![idx] = r.step.state]
            /\ Advance
            /\ state' = 0
       ELSE /\ pc' = a
            /\ state' = IF a \in {"stall", "blocked"} THEN r.step.state ELSE 0
            /\ UNCHANGED <<last_states, idx>>

Polled(r) == Commit(r, AfterLine(r.step))

\* state = GPIO.input(pin) and the body of the for loop, as far as it gets
\* without waiting: to the end of the line, or into the .get() of the
\* handler dispatched
PollPin ==
    /\ pc = "pin"
    /\ \E ext \in CallOutcomes : Polled(poll_line(idx, hw[idx], ext))
    /\ UNCHANGED <<self_config, pin_settings, stop_polling, hw, released, main,
                   joined>>

\* the line once the .get() has returned, r being the outcome of the
\* dispatch and ext what the environment did to its calls
Resumed(r, ext) ==
    [encoders |-> rot_encoders, core |-> r.core,
     step |-> [step EXCEPT
                 !.calls = r.calls,
                 !.result = r.result,
                 !.failed = WriteFailed(r.calls, ext),
                 !.sleep = IF step.kind = "rotary" THEN 0
                           ELSE DebounceSleep(pin_settings[idx], step.last,
                                              step.state, r.result)]]

\* the .get() the handler waits in returns, with a result or an exception:
\* the rest of the handler, and of the line
GetReturns ==
    /\ pc = "blocked"
    /\ \E ext \in ReturnOutcomes :
          Polled(Resumed(dispatch_input(step.dispatched[1].event,
                                        step.dispatched[1].options, core, ext),
                         ext))
    /\ UNCHANGED <<self_config, pin_settings, stop_polling, hw, released, main,
                   joined>>

\* the clock: a tick of the debounce time goes by
Tick ==
    /\ window > 0
    /\ window' = window - 1
    /\ UNCHANGED <<pin_settings, rot_encoders, last_states, stop_polling, hw,
                   released, core, main, pc, idx, state, step, glitched,
                   self_config, phase, joined>>

\* StallEnd with the bug of a sleep that the stop flag cuts short
StallEndOnStop ==
    /\ pc = "stall"
    /\ window = 0 \/ stop_polling
    /\ last_states' = [last_states EXCEPT ![idx] = state]
    /\ state' = 0
    /\ window' = 0
    /\ Advance
    /\ UNCHANGED <<pin_settings, rot_encoders, stop_polling, hw, released,
                   core, main, step, glitched, self_config, phase, joined>>

\* StallEnd with the bug of not keeping the level sampled at the press
StallEndNoStore ==
    /\ pc = "stall"
    /\ window = 0
    /\ state' = 0
    /\ Advance
    /\ UNCHANGED <<pin_settings, rot_encoders, last_states, stop_polling, hw,
                   released, core, main, window, step, glitched,
                   self_config, phase, joined>>

\* the debounce sleep returns: self.last_states[pin] = state
StallEnd ==
    /\ pc = "stall"
    /\ window = 0
    /\ last_states' = [last_states EXCEPT ![idx] = state]
    /\ state' = 0
    /\ Advance
    /\ UNCHANGED <<pin_settings, rot_encoders, stop_polling, hw, released,
                   core, main, window, step, glitched,
                   self_config, phase, joined>>

\* PassBegin with the bug of not testing the stop flag
PassBeginUnchecked ==
    /\ pc = "check"
    /\ pc' = "pin"
    /\ idx' = 1
    /\ UNCHANGED <<pin_settings, rot_encoders, last_states, stop_polling, hw,
                   released, core, main, state, window, step, glitched,
                   self_config, phase, joined>>

\* while not self._stop_polling.is_set(): a new pass begins
PassBegin ==
    /\ pc = "check"
    /\ ~stop_polling
    /\ pc' = "pin"
    /\ idx' = 1
    /\ UNCHANGED <<pin_settings, rot_encoders, last_states, stop_polling, hw,
                   released, core, main, state, window, step, glitched,
                   self_config, phase, joined>>

\* while not self._stop_polling.is_set(): the loop ends
LoopExit ==
    /\ pc = "check"
    /\ stop_polling
    /\ pc' = "done"
    /\ UNCHANGED <<pin_settings, rot_encoders, last_states, stop_polling, hw,
                   released, core, main, idx, state, window, step, glitched,
                   self_config, phase, joined>>

(***************************************************************************)
(* on_start and on_stop, run by the owning actor.                          *)
(***************************************************************************)
on_start ==
    /\ main = "constructed"
    /\ main' = "started"
    /\ pc' = "check"
    /\ UNCHANGED <<pin_settings, rot_encoders, last_states, stop_polling, hw,
                   released, core, idx, state, window, step, glitched,
                   self_config, phase, joined>>

\* self._stop_polling.set()
on_stop_set ==
    /\ main = "started"
    /\ stop_polling' = TRUE
    /\ main' = "joining"
    /\ UNCHANGED <<pin_settings, rot_encoders, last_states, hw, released,
                   core, pc, idx, state, window, step, glitched,
                   self_config, phase, joined>>

\* ThreadEnded with the bug of taking a thread asleep or at a line for one
\* that has ended
ThreadEndedOrBusy == pc \in {"done", "crashed", "stall", "pin"}

ThreadEnded == pc \in {"done", "crashed"}

\* JoinReturns with the bug of joining without a timeout
JoinWaits == ThreadEnded

\* self._polling_thread.join(timeout=1) returns: the thread has ended, or
\* the timeout has run out
JoinReturns == ThreadEnded \/ TRUE

\* the join returns, then GPIO.cleanup()
on_stop_cleanup ==
    /\ main = "joining"
    /\ JoinReturns
    /\ released' = released + 1
    /\ main' = "stopped"
    /\ joined' = IF ThreadEnded THEN "ended" ELSE "timeout"
    /\ UNCHANGED <<pin_settings, rot_encoders, last_states, stop_polling, hw,
                   core, pc, idx, state, window, step, glitched,
                   self_config, phase>>

(***************************************************************************)
(* The environment: a hardware line changes its level (followed for as     *)
(* long as a polling thread may still read it).                            *)
(***************************************************************************)
HwChange ==
    /\ pc \notin {"done", "crashed"}
    /\ \E p \in Pins : hw' = [hw EXCEPT ![p] = 1 - @]
    /\ UNCHANGED <<pin_settings, rot_encoders, last_states, stop_polling,
                   released, core, main, pc, idx, state, window, step, glitched,
                   self_config, phase, joined>>

Next ==
    \/ PollPin
    \/ GetReturns
    \/ ReadFails
    \/ Tick
    \/ StallEnd
    \/ PassBegin
    \/ LoopExit
    \/ on_start
    \/ on_stop_set
    \/ on_stop_cleanup
    \/ HwChange

Spec == Init /\ [][Next]_vars

\* The scheduling the lifecycle runs under: the actor's thread, which runs
\* on_stop, gets to run.  Nothing is assumed of the polling thread, which
\* may wait in a .get() for any time, or sleep.
FairSpec == Spec /\ WF_vars(on_stop_cleanup)

(***************************************************************************)
(* The construction on its own: __init__ run on configurations whose       *)
(* lines share the rotary-group id "enc" in ones, twos and threes, and     *)
(* the frontend started afterwards.                                        *)
(***************************************************************************)
\* a single line with the group id, between two buttons
LoneLine ==
    [p \in Pins |->
        CASE p = 1 -> Settings("active_low", 1, "play_stop", NoOptions)
          [] p = 2 -> Settings("active_low", 1, "next", OptionsA)
          [] p = 3 -> Settings("active_high", 1, "play_pause", NoOptions)]

\* three lines with the group id
ThreeLines == [p \in Pins |-> Settings("active_low", 1, "next", OptionsB)]

GroupConfigs ==
    { Lines(Settings("active_low", 1, "play_stop", NoOptions), "next", "prev"),
      LoneLine, ThreeLines }

\* RotEncoder.add_pin on an encoder that has its two lines: the
\* configuration error of binding a third pin (section 3 of the
\* specification)
BindsThirdPin(encoders) ==
    \E i \in DOMAIN encoders : Len(encoders[i].pins) > 2

\* before __init__: the configuration and the hardware lines
BuildInit ==
    /\ self_config \in GroupConfigs
    /\ pin_settings = <<>>
    /\ hw \in [Pins -> Levels]
    /\ last_states = <<>>
    /\ rot_encoders = <<>>
    /\ stop_polling = FALSE
    /\ released = 0
    /\ core \in InitCore
    /\ main = "configuring"
    /\ pc = "idle"
    /\ idx = 1
    /\ state = 0
    /\ window = 0
    /\ step = NoStep
    /\ glitched = FALSE
    /\ phase = <<>>
    /\ joined = "no"

\* __init__: the "Setup pins" loop; it ends in an exception only where
\* add_pin raises one
__init__ ==
    /\ main = "configuring"
    /\ IF BindsThirdPin(SetupEncoders(self_config, 1, <<>>))
       THEN /\ main' = "failed"
            /\ UNCHANGED <<pin_settings, rot_encoders, last_states, phase>>
       ELSE /\ main' = "constructed"
            /\ pin_settings' = self_config
            /\ rot_encoders' = InitEncoders(self_config, hw)
            /\ last_states' = hw
            /\ phase' = [p \in Pins |-> InitialPhase(self_config[p], hw[p])]
    /\ UNCHANGED <<self_config, stop_polling, hw, released, core, pc, idx,
                   state, window, step, glitched, joined>>

BuildNext == __init__ \/ Next

BuildSpec == BuildInit /\ [][BuildNext]_vars

(***************************************************************************)
(* The dispatcher and the handlers on their own: one call of               *)
(* dispatch_input, for every event name, options and state of the          *)
(* playback-control surface.                                               *)
(***************************************************************************)
StepOptions == {Dict({"step"}, [step |-> n]) : n \in (-MaxStep) .. MaxStep}
UriOptions == {Dict({"uri"}, [uri |-> u]) : u \in DOMAIN Library \cup {"pl:none"}}

OptionsFor(event) ==
    {NoOptions}
        \cup (IF event \in {"volume_up", "volume_down"} THEN StepOptions ELSE {})
        \cup (IF event = "playlist" THEN UriOptions ELSE {})

HandlerCores ==
    [playback : {"stopped", "playing", "paused"}, volume : VolumeFloor .. VolumeCap,
     tracklist : {<<>>}]
        \cup [playback : {"stopped", "playing"}, volume : {50},
              tracklist : TrackLists]

HandlerInit ==
    /\ self_config = Lines(Settings("active_low", 1, "play_stop", NoOptions),
                           "next", "prev")
    /\ pin_settings = self_config
    /\ hw = [p \in Pins |-> HIGH]
    /\ last_states = hw
    /\ rot_encoders = InitEncoders(self_config, hw)
    /\ stop_polling = FALSE
    /\ released = 0
    /\ core \in HandlerCores
    /\ main = "constructed"
    /\ pc = "dispatch"
    /\ idx = 1
    /\ state = 0
    /\ window = 0
    /\ step = NoStep
    /\ glitched = FALSE
    /\ phase = [p \in Pins |-> InitialPhase(self_config[p], hw[p])]
    /\ joined = "no"

DispatchDone(r) ==
    /\ pc' = IF r.result = "blocked" THEN "blocked" ELSE "dispatched"
    /\ core' = r.core
    /\ step' = [NoStep EXCEPT !.kind = "dispatch",
                              !.dispatched = r.dispatched,
                              !.calls = r.calls,
                              !.result = r.result,
                              !.failed = r.failed]

\* self.dispatch_input(event, options), to its end or into the .get() of
\* the handler
DispatchInput ==
    /\ pc = "dispatch"
    /\ \E event \in Handlers \cup {"bogus"}, ext \in CallOutcomes :
         \E options \in OptionsFor(event) :
            DispatchDone(Dispatch(event, options, rot_encoders, core, ext))
    /\ UNCHANGED <<pin_settings, rot_encoders, last_states, stop_polling, hw,
                   released, main, idx, state, window, glitched,
                   self_config, phase, joined>>

\* the .get() returns: the rest of the handler and of dispatch_input
DispatchReturns ==
    /\ pc = "blocked"
    /\ \E ext \in ReturnOutcomes :
          DispatchDone(Dispatch(step.dispatched[1].event,
                                step.dispatched[1].options, rot_encoders,
                                core, ext))
    /\ UNCHANGED <<pin_settings, rot_encoders, last_states, stop_polling, hw,
                   released, main, idx, state, window, glitched,
                   self_config, phase, joined>>

HandlerNext == DispatchInput \/ DispatchReturns

HandlerSpec == HandlerInit /\ [][HandlerNext]_vars

(***************************************************************************)
(* The claims.                                                             *)
(***************************************************************************)
\* the steps of the Gray cycle 00 -> 01 -> 11 -> 10 -> 00, as (from, to)
GrayCw == {<<0, 1>>, <<1, 3>>, <<3, 2>>, <<2, 0>>}
IsCw(from, to) == <<from, to>> \in GrayCw
IsCcw(from, to) == <<to, from>> \in GrayCw
IsDouble(from, to) == from # to /\ ~IsCw(from, to) /\ ~IsCcw(from, to)

\* the encoder a step of the loop was about, and the events of its lines
\* in role A (clockwise) and role B (counter-clockwise)
StepEncoder == rot_encoders[pin_settings[step.pin].options["rotenc_id"]]
EventA == pin_settings[StepEncoder.pins[1]].event
EventB == pin_settings[StepEncoder.pins[2]].event

OneEvent(event) ==
    Len(step.dispatched) = 1 /\ step.dispatched[1].event = event

\* C1: every adjacent transition of a group's 2-bit state that is sampled
\* makes the loop dispatch exactly one event, the clockwise one for a step
\* of 00 -> 01 -> 11 -> 10 -> 00 and the counter-clockwise one for a step of
\* the reverse cycle; a step of the loop that samples no transition
\* dispatches nothing.
C1_AdjacentTransitionOneEvent ==
    step.kind = "rotary" =>
        /\ IsCw(step.from, step.to) => OneEvent(EventA)
        /\ IsCcw(step.from, step.to) => OneEvent(EventB)
        /\ step.from = step.to => step.dispatched = <<>>
        /\ ~step.queried => step.from = step.to

\* the closing step 10 -> 00 of a clockwise walk has been sampled
C1_Witness ==
    /\ step.kind = "rotary"
    /\ step.from = 2
    /\ step.to = 0
    /\ OneEvent("next")

\* C2: a double-bit transition dispatches nothing, and the next adjacent
\* transition, taken from the state the double-bit one led to, dispatches
\* exactly one event of the right direction.
C2_DoubleBitDiscarded ==
    step.kind = "rotary" =>
        /\ IsDouble(step.from, step.to) => step.dispatched = <<>>
        /\ step.resumed /\ IsCw(step.from, step.to) => OneEvent(EventA)
        /\ step.resumed /\ IsCcw(step.from, step.to) => OneEvent(EventB)

\* an adjacent transition sampled right after a double-bit one gave its event
C2_Witness ==
    /\ step.kind = "rotary"
    /\ step.resumed
    /\ IsCcw(step.from, step.to)
    /\ OneEvent(EventB)

\* the press of a button, by its polarity
IsPress(pin, last, st) ==
    IF pin_settings[pin].active = "active_high"
    THEN last = LOW /\ st = HIGH
    ELSE last = HIGH /\ st = LOW

\* C3: one inactive-to-active transition of a button dispatches exactly one
\* event; no line is sampled during the debounce time that follows, and the
\* level kept for the button afterwards is the one sampled at the press.
C3_DebounceWindowNotSampled ==
    /\ [](/\ step.kind = "button" /\ IsPress(step.pin, step.last, step.state)
               => OneEvent(pin_settings[step.pin].event)
          /\ pc = "pin" => window = 0
          /\ window > 0 => step.kind = "button" /\ pc = "stall")
    /\ [][pc = "stall" /\ pc' # "stall" => last_states'[idx] = step.state]_vars

\* the button bounced back to its inactive level inside the window
C3_Witness ==
    /\ pc = "stall"
    /\ window > 0
    /\ hw[idx] # state
    /\ OneEvent("play_stop")

\* C4: a button dispatches, and stalls the loop, only on its activating
\* edge: previous level inactive and current level active.
C4_OnlyActivatingEdge ==
    step.kind = "button" /\ ~IsPress(step.pin, step.last, step.state) =>
        /\ step.dispatched = <<>>
        /\ step.sleep = 0
        /\ pc # "stall"
        /\ window = 0

\* a releasing edge of an active_high button has been sampled
C4_Witness ==
    /\ step.kind = "button"
    /\ pin_settings[step.pin].active = "active_high"
    /\ step.last = HIGH
    /\ step.state = LOW
    /\ step.dispatched = <<>>

\* C5: an event name without a handler fails that dispatch only: the
\* polling thread is still running afterwards.
C5_UnmappedEventConfined == ~(step.result = "missing" /\ pc = "crashed")

\* C6: a hardware read that fails does not end the loop: the polling thread
\* is still running afterwards, on to the next line.
C6_ReadFailureConfined == ~(step.kind = "readfail" /\ pc = "crashed")

\* C7: a playback-control call that fails does not end the loop: the
\* polling thread is still running afterwards.
C7_ExternalFailureConfined == ~(step.result = "raised" /\ pc = "crashed")

\* C8: once the stop flag is set the loop begins no new pass, and on_stop
\* releases the hardware lines exactly once.
C8_StopWithinOnePass ==
    /\ [][stop_polling /\ pc = "check" => pc' # "pin"]_vars
    /\ [](released <= 1 /\ (main = "stopped" <=> released = 1))

\* the loop has run, was stopped and has left, and the lines are released
C8_Witness ==
    /\ step.kind = "rotary"
    /\ main = "stopped"
    /\ pc = "done"
    /\ released = 1

\* C9: on_stop, once it has set the stop flag, always completes and has
\* then released the hardware lines, whatever the polling thread is doing.
C9_OnStopCompletes == (main = "joining") ~> (main = "stopped" /\ released = 1)

\* on_stop is over while the loop is inside a debounce sleep or a handler
\* that hangs
C9_Witness ==
    /\ main = "stopped"
    /\ released = 1
    /\ pc \in {"stall", "blocked"}

\* the value a set_volume call of the last dispatch wrote
Written == {step.calls[i].arg : i \in {j \in DOMAIN step.calls :
                                           step.calls[j].op = "set_volume"}}

\* C10: whatever the volume and the step, the value a volume handler writes
\* with set_volume lies in [0, 100].
C10_VolumeWrittenInRange == \A v \in Written : 0 <= v /\ v <= 100

\* the last step was one dispatch, of the given event
DispatchOf(event) == step.kind = "dispatch" /\ OneEvent(event)

\* the operations of a sequence of calls, in the order issued
Ops(calls) == [i \in DOMAIN calls |-> calls[i].op]

\* the URI the options of the last dispatch give
DispatchedUri == UriOf(step.dispatched[1].options)

\* C11: after the playlist event is dispatched with the URI of a playlist,
\* the calls issued are lookup, clear, add (of that playlist's tracks) and
\* play, in this order, and, with every write carried out, the tracklist
\* holds exactly the tracks of the playlist in the playlist's order and
\* playback is started, whatever the tracklist held before.
C11_PlaylistReplacesTracklist ==
    DispatchOf("playlist") /\ step.result = "ok" =>
        /\ DispatchedUri \in DOMAIN Library
        /\ Ops(step.calls) = <<"lookup", "clear", "add", "play">>
        /\ step.calls[3].uri = DispatchedUri
        /\ step.failed = 0 => /\ core.tracklist = Library[DispatchedUri]
                              /\ core.playback = "playing"

\* the one-track playlist has replaced whatever the tracklist held
C11_Witness ==
    /\ DispatchOf("playlist")
    /\ step.result = "ok"
    /\ step.failed = 0
    /\ DispatchedUri = "pl:b"
    /\ core.tracklist = Library["pl:b"]
    /\ core.playback = "playing"

\* the rotary-group ids of the configuration, and the lines that share one
GroupIds ==
    {self_config[p].options["rotenc_id"] :
        p \in {q \in DOMAIN self_config : IsRotary(self_config[q])}}
GroupLines(id) ==
    {p \in DOMAIN self_config :
        IsRotary(self_config[p]) /\ self_config[p].options["rotenc_id"] = id}

\* C12: with a rotary group of any number of lines other than two in the
\* configuration, construction fails and polling never starts.
C12_MalformedGroupRejected ==
    (\E id \in GroupIds : Cardinality(GroupLines(id)) # 2) =>
        main \in {"configuring", "failed"} /\ pc = "idle"

\* C13: a stall is always that of a button whose press was sampled and
\* whose event has been dispatched already; it starts with the whole
\* debounce time of that line ahead; while time is left nothing is sampled
\* and the thread stays in the stall, with the stop flag set or not; and
\* when the stall ends the thread goes on with the next line of the same
\* pass (with the test of the stop flag after the last line only).
C13_DispatchThenStall ==
    /\ [](pc = "stall" =>
            /\ step.kind = "button"
            /\ step.pin = idx
            /\ IsPress(idx, step.last, step.state)
            /\ OneEvent(pin_settings[idx].event)
            /\ step.sleep = pin_settings[idx].bouncetime
            /\ window <= step.sleep)
    /\ [][pc # "stall" /\ pc' = "stall" => window' = step'.sleep]_vars
    /\ [][pc = "stall" /\ window > 0 =>
            /\ pc' = "stall"
            /\ step' = step
            /\ last_states' = last_states
            /\ window' \in {window, window - 1}]_vars
    /\ [][pc = "stall" /\ pc' # "stall" =>
            /\ window = 0
            /\ pc' = IF idx = NumPins THEN "check" ELSE "pin"
            /\ idx' = IF idx = NumPins THEN 1 ELSE idx + 1]_vars

\* the stall of a press is over and the next line of the pass is about to
\* be sampled, with the stop flag set
C13_Witness ==
    /\ pc = "pin"
    /\ idx = 2
    /\ step.kind = "button"
    /\ step.sleep = MaxBounce
    /\ OneEvent("play_stop")
    /\ stop_polling

\* the level of a line in a 2-bit state of the encoder of the last step
RoleBit(pin, s) == IF StepEncoder.pins[1] = pin THEN s \div 2 ELSE s % 2

\* C14: a line of a rotary group never stalls the loop, and every change of
\* its level, in either direction and whatever its polarity and debounce
\* time, is taken to the decoder, whose state then holds the level
\* sampled; without a change the decoder is not queried.
C14_RotaryNeverDebounced ==
    /\ pc = "stall" => ~IsRotary(pin_settings[idx])
    /\ step.kind = "rotary" =>
        /\ step.sleep = 0
        /\ window = 0
        /\ step.last # step.state => RoleBit(step.pin, step.to) = step.state
        /\ step.last = step.state =>
                step.to = step.from /\ step.dispatched = <<>>

\* an active_high line of the encoder, with the long debounce time, went
\* to its active level: an event, and the loop is on to the next line
C14_Witness ==
    /\ step.kind = "rotary"
    /\ step.pin = 2
    /\ pin_settings[2].active = "active_high"
    /\ pin_settings[2].bouncetime = MaxBounce
    /\ step.last = LOW
    /\ step.state = HIGH
    /\ OneEvent("next")
    /\ pc = "pin"
    /\ idx = 3

\* C15: an event dispatched from a line of an encoder comes from a change
\* of that line's level and carries the options configured for that line,
\* also when the event itself is the one configured on the other line.
C15_OptionsOfChangedLine ==
    step.kind = "rotary" /\ step.dispatched # <<>> =>
        /\ Len(step.dispatched) = 1
        /\ step.last # step.state
        /\ step.dispatched[1].options = pin_settings[step.pin].options

\* a change of the line in role B decoded as a clockwise step: the event of
\* the line in role A, with the options of the line in role B
C15_Witness ==
    /\ step.kind = "rotary"
    /\ step.pin = StepEncoder.pins[2]
    /\ IsCw(step.from, step.to)
    /\ OneEvent(EventA)
    /\ step.dispatched[1].options = OptionsB
    /\ pin_settings[StepEncoder.pins[1]].options = OptionsA

\* C16: dispatch_input reports the missing-handler error exactly when no
\* handler exists for the event name; an error raised inside a handler
\* that exists is not reported as a missing handler.
C16_MissingIffNoHandler ==
    step.kind = "dispatch" /\ Len(step.dispatched) = 1 =>
        (step.result = "missing" <=> step.dispatched[1].event \notin Handlers)

\* C20: a playlist dispatch whose lookup yields no playlist leaves the
\* tracklist as it was and issues no playback command.
C20_FailedLookupChangesNothing ==
    [][/\ pc' = "dispatched"
       /\ step'.kind = "dispatch"
       /\ step'.dispatched[1].event = "playlist"
       /\ lookup(UriOf(step'.dispatched[1].options)) = None
       /\ step'.result \notin {"raised", "blocked"}
       => /\ core'.tracklist = core.tracklist
          /\ \A i \in DOMAIN step'.calls : step'.calls[i].op # "play"]_vars

\* the last step sampled a button and dispatched its event
ButtonFired == step.kind = "button" /\ step.dispatched # <<>>

\* C17: a button that was at its active level when __init__ read it
\* dispatches nothing for as long as it has not been sampled inactive: a
\* sample of the held press dispatches nothing and does not stall, and no
\* event of a button comes from a line still in its held press.
C17_HeldPressSilent ==
    /\ step.kind = "button" /\ step.phase = "held"
           /\ IsActive(pin_settings[step.pin], step.state) =>
               /\ step.dispatched = <<>>
               /\ step.sleep = 0
               /\ step.last = step.state
    /\ ButtonFired => step.phase # "held"

\* the press held since construction has been sampled: nothing dispatched
C17_Witness ==
    /\ step.kind = "button"
    /\ step.phase = "held"
    /\ phase[step.pin] = "held"
    /\ IsActive(pin_settings[step.pin], step.state)
    /\ step.dispatched = <<>>
    /\ pc = "pin"

\* C18: a button that has dispatched its event dispatches the next one
\* only after a sample of its inactive level; samples of the press still
\* held dispatch nothing, in any later pass.
C18_NoRepeatWhileHeld ==
    /\ ButtonFired => step.phase # "fired"
    /\ step.kind = "button" /\ step.phase = "fired"
           /\ IsActive(pin_settings[step.pin], step.state) =>
               step.dispatched = <<>> /\ phase[step.pin] = "fired"

\* a pass after the one of the press sampled the button still held
C18_Witness ==
    /\ step.kind = "button"
    /\ step.phase = "fired"
    /\ IsActive(pin_settings[step.pin], step.state)
    /\ step.dispatched = <<>>
    /\ pin_settings[step.pin].bouncetime = MaxBounce

\* the last step of the loop read a line, or tried to, after GPIO.cleanup()
LateRead == step.kind \in {"button", "rotary", "readfail"} /\ step.late

\* C19: when the join of on_stop returns because the polling thread has
\* ended, the thread stays ended and no line is read once the lines are
\* released; a read after the release happens only after a join that
\* timed out.
C19_NoReadAfterRelease ==
    /\ released > 0 <=> joined # "no"
    /\ joined = "ended" => pc \in {"done", "crashed"} /\ ~LateRead
    /\ LateRead => joined = "timeout"

\* the loop left at the test of the stop flag, the join returned for it
\* and the lines were released after its last read
C19_Witness ==
    /\ joined = "ended"
    /\ released = 1
    /\ pc = "done"
    /\ step.kind = "rotary"
    /\ ~step.late

====
